---- MODULE Spec2Model ----
(***************************************************************************)
(* A model of class MassPoint (src/MassPoint.h): a 3D point endowed with a *)
(* mass, its three time samples of position and velocity, and its         *)
(* collision accumulators vRes, f, dr, df.                                 *)
(*                                                                         *)
(* Real (typedef double Real) is modelled by the integers: every value the *)
(* model reaches is a small integer, which a double represents exactly and *)
(* on which double addition and multiplication are exact.  Rounding,       *)
(* infinities and NaN are outside the model.                               *)
(***************************************************************************)
EXTENDS Integers, Sequences, FiniteSets, Bags, TLC

(***************************************************************************)
(* vec3<Real>                                                              *)
(***************************************************************************)
zeroVec == <<0, 0, 0>>

VAdd(a, b) == <<a[1] + b[1], a[2] + b[2], a[3] + b[3]>>

VSub(a, b) == <<a[1] - b[1], a[2] - b[2], a[3] - b[3]>>

VScale(s, a) == <<s * a[1], s * a[2], s * a[3]>>

(***************************************************************************)
(* Bounds and the inputs the operations are called with.                   *)
(***************************************************************************)
MaxCalls == 5

MaxSteps == 2

MaxForces == 2

MaxPairs == 2

MaxBatch == 3

MaxCollide == 2

Positions == {<<1, 0, 0>>, <<0, 2, -1>>}

Masses == {-1, 2}

Forces == {<<1, 0, 0>>, <<0, -1, 2>>}

Dampings == {1, 3}

Offsets == {<<0, 1, 0>>, <<-1, 0, 2>>}

\* What one colliding pair adds to one point: shares of df, dr and vRes.
Contributions ==
    { [df |-> <<2, 0, 0>>, dr |-> zeroVec,     vRes |-> zeroVec],
      [df |-> zeroVec,     dr |-> <<0, 1, 0>>, vRes |-> <<0, 0, 1>>],
      [df |-> <<0, 1, 0>>, dr |-> <<1, 0, -1>>, vRes |-> <<-1, 1, 0>>] }

(***************************************************************************)
(* MassPoint: the fields and the constructors.                             *)
(***************************************************************************)
Fields ==
    { "r", "rMinus", "rPlus", "r0", "v", "vMinus", "vPlus", "v0",
      "vRes", "f", "dr", "df", "mass" }

\* MassPoint(vec3<Real> pos): a static point at pos.
MassPointAt(pos) ==
    [ r |-> pos, rMinus |-> pos, rPlus |-> pos, r0 |-> pos,
      v |-> zeroVec, vMinus |-> zeroVec, vPlus |-> zeroVec, v0 |-> zeroVec,
      vRes |-> zeroVec, f |-> zeroVec, dr |-> zeroVec, df |-> zeroVec,
      mass |-> 0 ]

\* MassPoint(): every field zero.
MassPointDefault == MassPointAt(zeroVec)

(***************************************************************************)
(* MassPoint: the public mutators, each as the new value of the object.    *)
(***************************************************************************)
SetMass(p, m) == [p EXCEPT !.mass = m]

\* ResetForce without "this->df = zeroVec".
ResetForce_KeepsDf(p) == [p EXCEPT !.f = p.df]

\* ResetForce clearing both buffers.
ResetForce_ClearsBoth(p) == [p EXCEPT !.f = zeroVec, !.df = zeroVec]

\* ResetForce adding df to f instead of assigning it.
ResetForce_Adds(p) == [p EXCEPT !.f = VAdd(p.f, p.df), !.df = zeroVec]

\* ResetForce exchanging the two buffers instead of committing and clearing.
ResetForce_Swap(p) == [p EXCEPT !.f = p.df, !.df = p.f]

ResetForce(p) == [p EXCEPT !.f = p.df, !.df = zeroVec]

ResetDisplacement(p) == [p EXCEPT !.dr = zeroVec]

\* ResetRestitutionVelocity clearing dr, as ResetDisplacement does.
ResetRestitutionVelocity_ClearsDr(p) == [p EXCEPT !.dr = zeroVec]

ResetRestitutionVelocity(p) == [p EXCEPT !.vRes = zeroVec]

\* CorrectPosition clearing dr once it is applied.
CorrectPosition_Clears(p) == [p EXCEPT !.rPlus = VAdd(p.rPlus, p.dr), !.dr = zeroVec]

CorrectPosition(p) == [p EXCEPT !.rPlus = VAdd(p.rPlus, p.dr)]

\* CorrectVelocity clearing vRes once it is applied.
CorrectVelocity_Clears(p) ==
    [p EXCEPT !.vPlus = VAdd(p.vPlus, p.vRes), !.vRes = zeroVec]

CorrectVelocity(p) == [p EXCEPT !.vPlus = VAdd(p.vPlus, p.vRes)]

\* AddExternalForce writing to the deferred buffer df.
AddExternalForce_Deferred(p, force) == [p EXCEPT !.df = VAdd(p.df, force)]

\* AddExternalForce assigning the force instead of adding it.
AddExternalForce_Overwrites(p, force) == [p EXCEPT !.f = force]

AddExternalForce(p, force) == [p EXCEPT !.f = VAdd(p.f, force)]

\* "this->f += force" one component at a time, as the threads of a race see
\* it: component k of f is read, and later written back with the force
\* added to the value read.
AddExternalForceRead(p, k) == p.f[k]

\* The write storing the force alone.
AddExternalForceWrite_Overwrites(p, k, old, force) == [p EXCEPT !.f[k] = force[k]]

AddExternalForceWrite(p, k, old, force) == [p EXCEPT !.f[k] = old + force[k]]

AddDampingForce(p, b) == [p EXCEPT !.f = VAdd(p.f, VScale(-b, p.v))]

\* Perturb shifting the predicted position rPlus along with r.
Perturb_MovesPrediction(p, off) ==
    [p EXCEPT !.r = VAdd(p.r, off), !.rPlus = VAdd(p.rPlus, off)]

\* Perturb moving the reference position along with r.
Perturb_MovesRef(p, off) == [p EXCEPT !.r = VAdd(p.r, off), !.r0 = VAdd(p.r0, off)]

Perturb(p, off) == [p EXCEPT !.r = VAdd(p.r, off)]

\* Declared at src/MassPoint.h:121, defined outside src/: the time samples
\* rotate, rMinus <- r, r <- rPlus, vMinus <- v, v <- vPlus.
SynchronizePositionsAndVelocities(p) ==
    [p EXCEPT !.rMinus = p.r, !.r = p.rPlus, !.vMinus = p.v, !.v = p.vPlus]

\* What CollideLinks does to one of its twelve points on a collision: the
\* shares are added into df, dr and vRes; a point of mass <= 0 does not move
\* and takes no share of displacement or restitution velocity.
Accumulate(p, c) ==
    [p EXCEPT !.df = VAdd(p.df, c.df),
              !.dr = IF p.mass <= 0 THEN p.dr ELSE VAdd(p.dr, c.dr),
              !.vRes = IF p.mass <= 0 THEN p.vRes ELSE VAdd(p.vRes, c.vRes)]

(***************************************************************************)
(* CollisionUtilities::CollideLinks, declared at src/MassPoint.h:69-72 and *)
(* defined outside src/.  ps holds its twelve MassPoints in the order of   *)
(* its parameters: Pi, Qi, Ri, Pip1, Qip1, Rip1 (link A) and Pj, Qj, Rj,   *)
(* Pjp1, Qjp1, Rjp1 (link B).  A link's centerline runs from the centroid  *)
(* of its first triangle to the centroid of its second.  Lengths are kept  *)
(* exact by working with three times the centroids (the sums of the        *)
(* vertices) and with squared distances as fractions <<num, den>>, den > 0.*)
(***************************************************************************)
Dot(a, b) == a[1] * b[1] + a[2] * b[2] + a[3] * b[3]

Cross(a, b) ==
    <<a[2] * b[3] - a[3] * b[2], a[3] * b[1] - a[1] * b[3], a[1] * b[2] - a[2] * b[1]>>

\* Three times the centroid of the triangle (a, b, c), from the positions r.
Centroid3(a, b, c) == VAdd(VAdd(a.r, b.r), c.r)

\* The squared distance from the point P to the segment [A, B].
PointSegmentDist2(P, A, B) ==
    LET u == VSub(B, A)
        w == VSub(P, A)
        uu == Dot(u, u)
        t == Dot(w, u)
    IN  IF uu = 0 \/ t <= 0 THEN <<Dot(w, w), 1>>
        ELSE IF t >= uu THEN <<Dot(VSub(P, B), VSub(P, B)), 1>>
        ELSE <<Dot(w, w) * uu - t * t, uu>>

\* The closest points of the segments [A1, B1] and [A2, B2] are either both
\* inside the segments, on the common perpendicular of two lines that are
\* not parallel, or one of them is an end point.  The squared distance of
\* the segments is the least of these squared distances.
SegmentDist2Candidates(A1, B1, A2, B2) ==
    LET d1 == VSub(B1, A1)
        d2 == VSub(B2, A2)
        r == VSub(A1, A2)
        a == Dot(d1, d1)
        e == Dot(d2, d2)
        b == Dot(d1, d2)
        c == Dot(d1, r)
        f == Dot(d2, r)
        den == a * e - b * b
        sn == b * f - c * e
        tn == a * f - b * c
        n == Cross(d1, d2)
        ends == { PointSegmentDist2(A1, A2, B2), PointSegmentDist2(B1, A2, B2),
                  PointSegmentDist2(A2, A1, B1), PointSegmentDist2(B2, A1, B1) }
    IN  IF den > 0 /\ 0 <= sn /\ sn <= den /\ 0 <= tn /\ tn <= den
        THEN ends \cup { <<Dot(r, n) * Dot(r, n), Dot(n, n)>> }
        ELSE ends

\* Nine times the squared distances whose least is d*d, d the closest
\* distance between the centerlines of link A and link B.
LinkDist2Candidates(ps) ==
    SegmentDist2Candidates(Centroid3(ps[1], ps[2], ps[3]), Centroid3(ps[4], ps[5], ps[6]),
                           Centroid3(ps[7], ps[8], ps[9]), Centroid3(ps[10], ps[11], ps[12]))

\* The collision test taking touching cylinders (d = 2*rad) for a collision.
Overlap_Touching(ps, rad) ==
    \E x \in LinkDist2Candidates(ps) : x[1] <= 36 * rad * rad * x[2]

\* The collision test: d < 2*rad, that is 9*d*d < 36*rad*rad.
Overlap(ps, rad) ==
    \E x \in LinkDist2Candidates(ps) : x[1] < 36 * rad * rad * x[2]

VNeg(a) == VScale(-1, a)

Opposite(c) == [df |-> VNeg(c.df), dr |-> VNeg(c.dr), vRes |-> VNeg(c.vRes)]

\* On a collision every point of link A is handed the shares c and every
\* point of link B the opposite shares; which shares the response computes
\* from the penetration, the relative velocity and mu is left open, and so
\* is c.  Without a collision nothing is touched.
CollideLinks(ps, rad, mu, c) ==
    IF Overlap(ps, rad)
    THEN [i \in 1..12 |-> Accumulate(ps[i], IF i <= 6 THEN c ELSE Opposite(c))]
    ELSE ps

(***************************************************************************)
(* State.  mp is the MassPoint.                                            *)
(*                                                                         *)
(* The record of the calls made so far: calls counts them, last is the     *)
(* latest call and its argument, run is the number of times last.op has    *)
(* just been called in a row, and mp0 is the value the MassPoint had when  *)
(* that run of calls began.                                                *)
(*                                                                         *)
(* The integrator driving the per-step protocol: pc is the call it makes   *)
(* next, step the number of the step, nExt and nCol the numbers of force   *)
(* calls and of colliding pairs so far in the step; dfAcc is the sum of    *)
(* the shares of df the pairs of this step handed over, dfPrev that sum    *)
(* for the step before, and extSum the sum of the forces handed to         *)
(* AddExternalForce and AddDampingForce in this step.                      *)
(*                                                                         *)
(* A batch of force calls to make on the point in some order: batch is the *)
(* multiset of the calls (how many of each), pending those still to make.  *)
(*                                                                         *)
(* pts holds the twelve MassPoints handed to CollideLinks, in the order of *)
(* its parameters, and pts0 their values before the latest call.           *)
(*                                                                         *)
(* threads holds, for each thread calling AddExternalForce on the point,   *)
(* its force, where it is in the call (pc, and the component k of f it is  *)
(* at) and the value tmp it has read; serial says whether the callers      *)
(* serialize their calls on the point.                                     *)
(*                                                                         *)
(* disp follows the displacement through the steps of the integrator:      *)
(* start is rPlus as the step found it, acc the sum of the shares of dr    *)
(* the pairs of this step handed to the point, prev the sum of the shares  *)
(* of earlier steps that no ResetDisplacement has been called after, and   *)
(* reset whether ResetDisplacement has been called in this step.           *)
(***************************************************************************)
VARIABLES mp, calls, last, run, mp0,
          pc, step, nExt, nCol, dfAcc, dfPrev, extSum,
          batch, pending,
          pts, pts0,
          threads, serial,
          disp

callVars == <<calls, last, run, mp0>>

stepVars == <<pc, step, nExt, nCol, dfAcc, dfPrev, extSum>>

orderVars == <<batch, pending>>

linkVars == <<pts, pts0>>

raceVars == <<threads, serial>>

vars == <<mp, callVars, stepVars, orderVars, linkVars, raceVars, disp>>

NoArg == "none"

Constructed == {MassPointDefault} \cup {MassPointAt(pos) : pos \in Positions}

NoCalls ==
    /\ calls = 0
    /\ last = [op |-> "construct", arg |-> NoArg]
    /\ run = 0
    /\ mp0 = mp

NoIntegrator ==
    /\ pc = "none"
    /\ step = 0
    /\ nExt = 0
    /\ nCol = 0
    /\ dfAcc = zeroVec
    /\ dfPrev = zeroVec
    /\ extSum = zeroVec

NoBatch ==
    /\ batch = <<>>
    /\ pending = <<>>

NoLinks ==
    /\ pts = <<>>
    /\ pts0 = <<>>

NoThreads ==
    /\ threads = <<>>
    /\ serial = FALSE

NoSteps == disp = <<>>

(***************************************************************************)
(* Spec: the public operations called in any order on one MassPoint.       *)
(***************************************************************************)
Init ==
    /\ mp \in Constructed
    /\ NoCalls
    /\ NoIntegrator
    /\ NoBatch
    /\ NoLinks
    /\ NoThreads
    /\ NoSteps

\* The record of a call of op with argument arg that takes mp to q.  The
\* sums dfAcc and extSum run from one call of ResetForce to the next, and
\* dfPrev is dfAcc as the latest ResetForce found it.
Called(op, arg, q) ==
    /\ calls < MaxCalls
    /\ mp' = q
    /\ calls' = calls + 1
    /\ last' = [op |-> op, arg |-> arg]
    /\ run' = IF last.op = op THEN run + 1 ELSE 1
    /\ mp0' = IF last.op = op THEN mp0 ELSE mp
    /\ dfAcc' = CASE op = "ResetForce" -> zeroVec
                  [] op = "CollideLinks" -> VAdd(dfAcc, arg.df)
                  [] OTHER -> dfAcc
    /\ dfPrev' = IF op = "ResetForce" THEN dfAcc ELSE dfPrev
    /\ extSum' = CASE op = "ResetForce" -> zeroVec
                   [] op = "AddExternalForce" -> VAdd(extSum, arg)
                   [] op = "AddDampingForce" -> VSub(extSum, VScale(arg, mp.v))
                   [] OTHER -> extSum
    /\ UNCHANGED <<pc, step, nExt, nCol, orderVars, linkVars, raceVars, disp>>

CallSetMass == \E m \in Masses : Called("SetMass", m, SetMass(mp, m))

CallResetForce == Called("ResetForce", NoArg, ResetForce(mp))

CallResetDisplacement == Called("ResetDisplacement", NoArg, ResetDisplacement(mp))

CallResetRestitutionVelocity ==
    Called("ResetRestitutionVelocity", NoArg, ResetRestitutionVelocity(mp))

CallCorrectPosition == Called("CorrectPosition", NoArg, CorrectPosition(mp))

CallCorrectVelocity == Called("CorrectVelocity", NoArg, CorrectVelocity(mp))

CallAddExternalForce ==
    \E force \in Forces : Called("AddExternalForce", force, AddExternalForce(mp, force))

CallAddDampingForce ==
    \E b \in Dampings : Called("AddDampingForce", b, AddDampingForce(mp, b))

CallSynchronize ==
    Called("SynchronizePositionsAndVelocities", NoArg,
           SynchronizePositionsAndVelocities(mp))

CallPerturb == \E off \in Offsets : Called("Perturb", off, Perturb(mp, off))

CallCollide == \E c \in Contributions : Called("CollideLinks", c, Accumulate(mp, c))

Next ==
    \/ CallSetMass
    \/ CallResetForce
    \/ CallResetDisplacement
    \/ CallResetRestitutionVelocity
    \/ CallCorrectPosition
    \/ CallCorrectVelocity
    \/ CallAddExternalForce
    \/ CallAddDampingForce
    \/ CallSynchronize
    \/ CallPerturb
    \/ CallCollide

Spec == Init /\ [][Next]_vars

(***************************************************************************)
(* SpecStep: one MassPoint driven by the per-step protocol, in its strict  *)
(* call order: ResetForce, ResetDisplacement, ResetRestitutionVelocity,    *)
(* then the external forces, then the colliding pairs, then                *)
(* CorrectPosition, CorrectVelocity, SynchronizePositionsAndVelocities.    *)
(***************************************************************************)
InitStep ==
    /\ mp \in Constructed
    /\ NoCalls
    /\ pc = "SetMass"
    /\ step = 0
    /\ nExt = 0
    /\ nCol = 0
    /\ dfAcc = zeroVec
    /\ dfPrev = zeroVec
    /\ extSum = zeroVec
    /\ NoBatch
    /\ NoLinks
    /\ NoThreads
    /\ disp = [start |-> mp.rPlus, prev |-> zeroVec, acc |-> zeroVec, reset |-> FALSE]

StepSetMass ==
    /\ pc = "SetMass"
    /\ \E m \in Masses : mp' = SetMass(mp, m)
    /\ pc' = "ResetForce"
    /\ step' = 1
    /\ UNCHANGED <<callVars, orderVars, linkVars, raceVars, disp, nExt, nCol, dfAcc, dfPrev, extSum>>

StepResetForce ==
    /\ pc = "ResetForce"
    /\ step <= MaxSteps
    /\ mp' = ResetForce(mp)
    /\ pc' = "ResetDisplacement"
    /\ dfPrev' = dfAcc
    /\ dfAcc' = zeroVec
    /\ extSum' = zeroVec
    /\ nExt' = 0
    /\ nCol' = 0
    /\ disp' = [start |-> mp.rPlus,
                prev |-> IF disp.reset THEN disp.acc ELSE VAdd(disp.prev, disp.acc),
                acc |-> zeroVec,
                reset |-> FALSE]
    /\ UNCHANGED <<callVars, orderVars, linkVars, raceVars, step>>

StepResetDisplacement ==
    /\ pc = "ResetDisplacement"
    /\ mp' = ResetDisplacement(mp)
    /\ pc' = "ResetRestitutionVelocity"
    /\ disp' = [disp EXCEPT !.reset = TRUE]
    /\ UNCHANGED <<callVars, orderVars, linkVars, raceVars, step, nExt, nCol, dfAcc, dfPrev, extSum>>

StepResetRestitutionVelocity ==
    /\ pc = "ResetRestitutionVelocity"
    /\ mp' = ResetRestitutionVelocity(mp)
    /\ pc' = "forces"
    /\ UNCHANGED <<callVars, orderVars, linkVars, raceVars, disp, step, nExt, nCol, dfAcc, dfPrev, extSum>>

StepAddExternalForce ==
    /\ pc = "forces"
    /\ nExt < MaxForces
    /\ \E force \in Forces :
          /\ mp' = AddExternalForce(mp, force)
          /\ extSum' = VAdd(extSum, force)
    /\ nExt' = nExt + 1
    /\ UNCHANGED <<callVars, orderVars, linkVars, raceVars, disp, pc, step, nCol, dfAcc, dfPrev>>

StepAddDampingForce ==
    /\ pc = "forces"
    /\ nExt < MaxForces
    /\ \E b \in Dampings :
          /\ mp' = AddDampingForce(mp, b)
          /\ extSum' = VSub(extSum, VScale(b, mp.v))
    /\ nExt' = nExt + 1
    /\ UNCHANGED <<callVars, orderVars, linkVars, raceVars, disp, pc, step, nCol, dfAcc, dfPrev>>

\* One call of CollideLinks on a colliding pair this point belongs to.
StepCollide ==
    /\ pc \in {"forces", "collide"}
    /\ nCol < MaxPairs
    /\ \E c \in Contributions :
          /\ mp' = Accumulate(mp, c)
          /\ dfAcc' = VAdd(dfAcc, c.df)
          /\ disp' = [disp EXCEPT !.acc = IF mp.mass <= 0 THEN @ ELSE VAdd(@, c.dr)]
    /\ pc' = "collide"
    /\ nCol' = nCol + 1
    /\ UNCHANGED <<callVars, orderVars, linkVars, raceVars, step, nExt, dfPrev, extSum>>

StepCorrectPosition ==
    /\ pc \in {"forces", "collide"}
    /\ mp' = CorrectPosition(mp)
    /\ pc' = "CorrectVelocity"
    /\ UNCHANGED <<callVars, orderVars, linkVars, raceVars, disp, step, nExt, nCol, dfAcc, dfPrev, extSum>>

StepCorrectVelocity ==
    /\ pc = "CorrectVelocity"
    /\ mp' = CorrectVelocity(mp)
    /\ pc' = "Synchronize"
    /\ UNCHANGED <<callVars, orderVars, linkVars, raceVars, disp, step, nExt, nCol, dfAcc, dfPrev, extSum>>

StepSynchronize ==
    /\ pc = "Synchronize"
    /\ mp' = SynchronizePositionsAndVelocities(mp)
    /\ pc' = "ResetForce"
    /\ step' = step + 1
    /\ UNCHANGED <<callVars, orderVars, linkVars, raceVars, disp, nExt, nCol, dfAcc, dfPrev, extSum>>

NextStep ==
    \/ StepSetMass
    \/ StepResetForce
    \/ StepResetDisplacement
    \/ StepResetRestitutionVelocity
    \/ StepAddExternalForce
    \/ StepAddDampingForce
    \/ StepCollide
    \/ StepCorrectPosition
    \/ StepCorrectVelocity
    \/ StepSynchronize

SpecStep == InitStep /\ [][NextStep]_vars

(***************************************************************************)
(* SpecSkip: the per-step protocol driven by an integrator that may leave  *)
(* out the call of ResetDisplacement in a step.  Nothing in MassPoint      *)
(* notices: the order of the calls is the caller's to keep.                *)
(***************************************************************************)
StepOmitResetDisplacement ==
    /\ pc = "ResetDisplacement"
    /\ pc' = "ResetRestitutionVelocity"
    /\ UNCHANGED <<mp, callVars, orderVars, linkVars, raceVars, disp,
                   step, nExt, nCol, dfAcc, dfPrev, extSum>>

NextSkip ==
    \/ NextStep
    \/ StepOmitResetDisplacement

SpecSkip == InitStep /\ [][NextSkip]_vars

(***************************************************************************)
(* SpecOrder: a batch of AddExternalForce and AddDampingForce calls made   *)
(* on one MassPoint within one step, one after the other, in any order.    *)
(***************************************************************************)
ForceCalls ==
    [op : {"AddExternalForce"}, arg : Forces] \cup
    [op : {"AddDampingForce"}, arg : Dampings]

RECURSIVE Count(_, _)
\* The number of calls in the multiset m that are in the set S.
Count(m, S) ==
    IF S = {} THEN 0
    ELSE LET c == CHOOSE x \in S : TRUE IN m[c] + Count(m, S \ {c})

Batches == {m \in [ForceCalls -> 0..MaxBatch] : Count(m, ForceCalls) <= MaxBatch}

\* A point a step has left moving: a colliding pair gave it the shares c,
\* the corrections were applied, the samples rotated, and the next step's
\* ResetForce committed df to f.
Moving(pos, c) ==
    ResetForce(SynchronizePositionsAndVelocities(CorrectVelocity(CorrectPosition(
        Accumulate(SetMass(MassPointAt(pos), 2), c)))))

InitOrder ==
    /\ mp \in Constructed \cup
              {Moving(pos, c) : pos \in Positions, c \in Contributions}
    /\ calls = 0
    /\ last = [op |-> "construct", arg |-> NoArg]
    /\ run = 0
    /\ mp0 = mp
    /\ NoIntegrator
    /\ batch \in Batches
    /\ pending = batch
    /\ NoLinks
    /\ NoThreads
    /\ NoSteps

\* The call c of the batch is made next.
Made(c, q) ==
    /\ pending[c] > 0
    /\ mp' = q
    /\ pending' = [pending EXCEPT ![c] = @ - 1]
    /\ calls' = calls + 1
    /\ last' = c
    /\ UNCHANGED <<run, mp0, batch, stepVars, linkVars, raceVars, disp>>

OrderAddExternalForce ==
    \E c \in ForceCalls :
        c.op = "AddExternalForce" /\ Made(c, AddExternalForce(mp, c.arg))

OrderAddDampingForce ==
    \E c \in ForceCalls :
        c.op = "AddDampingForce" /\ Made(c, AddDampingForce(mp, c.arg))

NextOrder ==
    \/ OrderAddExternalForce
    \/ OrderAddDampingForce

SpecOrder == InitOrder /\ [][NextOrder]_vars

(***************************************************************************)
(* SpecCollide: two links of twelve MassPoints, the narrow phase called on *)
(* them with some radius and friction coefficient, and the integrator      *)
(* resetting the accumulators of every point between steps.                *)
(***************************************************************************)
Radii == {1, 2}

Frictions == {0, 1}

\* The vertices of a triangle, relative to its centroid.
TriangleOffsets == << <<0, 1, 0>>, <<0, 0, -1>>, <<0, -1, 1>> >>

\* The three MassPoints of mass m of a triangle whose centroid is at c.
Triangle(c, m) ==
    [k \in 1..3 |-> SetMass(MassPointAt(VAdd(c, TriangleOffsets[k])), m)]

\* Link A starts at the origin; link B lies parallel to it, crosses over
\* it, or has shrunk to a point.
LinkAEnds == {<<3, 0, 0>>, <<0, 0, 0>>}

LinkBStarts == {<<0, 2, 0>>, <<0, 3, 0>>, <<1, -2, 4>>, <<5, 0, 0>>}

LinkBEnds == {<<3, 2, 0>>, <<3, 4, 0>>, <<1, 2, 4>>, <<0, 3, 0>>, <<7, 0, 0>>}

InitCollide ==
    /\ \E ea \in LinkAEnds, sb \in LinkBStarts, eb \in LinkBEnds,
          ma \in {0, 2}, mb \in {1} :
          pts = Triangle(zeroVec, ma) \o Triangle(ea, ma)
                    \o Triangle(sb, mb) \o Triangle(eb, mb)
    /\ pts0 = pts
    /\ mp = MassPointDefault
    /\ NoCalls
    /\ NoIntegrator
    /\ NoBatch
    /\ NoThreads
    /\ NoSteps

CallCollideLinks ==
    /\ calls < MaxCollide
    /\ \E rad \in Radii, mu \in Frictions, c \in Contributions :
          /\ pts' = CollideLinks(pts, rad, mu, c)
          /\ last' = [op |-> "CollideLinks", arg |-> [rad |-> rad, mu |-> mu]]
    /\ pts0' = pts
    /\ calls' = calls + 1
    /\ UNCHANGED <<mp, run, mp0, stepVars, orderVars, raceVars, disp>>

\* The integrator opens a step: the three resets on every MassPoint.
CallResetAll ==
    /\ last.op = "CollideLinks"
    /\ pts' = [i \in 1..12 |->
                 ResetRestitutionVelocity(ResetDisplacement(ResetForce(pts[i])))]
    /\ pts0' = pts
    /\ last' = [op |-> "reset", arg |-> NoArg]
    /\ UNCHANGED <<mp, calls, run, mp0, stepVars, orderVars, raceVars, disp>>

NextCollide ==
    \/ CallCollideLinks
    \/ CallResetAll

SpecCollide == InitCollide /\ [][NextCollide]_vars

(***************************************************************************)
(* SpecRace: two threads each call AddExternalForce on the same MassPoint. *)
(* The class holds no lock and f is a plain vec3<Real>, so a call is a     *)
(* read and a write of each component of f, and the steps of the two calls *)
(* interleave freely unless the callers serialize them (serial): then a    *)
(* call starts only when no other call is under way.                       *)
(***************************************************************************)
Threads == {1, 2}

InitRace ==
    /\ mp \in Constructed \cup
              {Moving(pos, c) : pos \in Positions, c \in Contributions}
    /\ calls = 0
    /\ last = [op |-> "construct", arg |-> NoArg]
    /\ run = 0
    /\ mp0 = mp
    /\ NoIntegrator
    /\ NoBatch
    /\ NoLinks
    /\ threads \in [Threads -> [pc : {"idle"}, k : {1}, tmp : {0}, force : Forces]]
    /\ serial \in BOOLEAN
    /\ NoSteps

Running(t) == threads[t].pc \in {"read", "write"}

RaceUnchanged == UNCHANGED <<callVars, stepVars, orderVars, linkVars, serial, disp>>

\* Thread t enters AddExternalForce.
RaceCall(t) ==
    /\ threads[t].pc = "idle"
    /\ serial => \A u \in Threads \ {t} : ~Running(u)
    /\ threads' = [threads EXCEPT ![t].pc = "read"]
    /\ mp' = mp
    /\ RaceUnchanged

\* Thread t reads component k of f.
RaceRead(t) ==
    /\ threads[t].pc = "read"
    /\ threads' = [threads EXCEPT ![t].tmp = AddExternalForceRead(mp, threads[t].k),
                                  ![t].pc = "write"]
    /\ mp' = mp
    /\ RaceUnchanged

\* Thread t writes component k of f, and goes on to the next component or
\* returns.
RaceWrite(t) ==
    /\ threads[t].pc = "write"
    /\ mp' = AddExternalForceWrite(mp, threads[t].k, threads[t].tmp, threads[t].force)
    /\ threads' = IF threads[t].k < 3
                  THEN [threads EXCEPT ![t].k = @ + 1, ![t].pc = "read"]
                  ELSE [threads EXCEPT ![t].pc = "done"]
    /\ RaceUnchanged

NextRace ==
    \E t \in Threads :
        \/ RaceCall(t)
        \/ RaceRead(t)
        \/ RaceWrite(t)

SpecRace == InitRace /\ [][NextRace]_vars

(***************************************************************************)
(* Properties of single calls and of runs of calls (Spec).                 *)
(***************************************************************************)
\* q agrees with p on every field outside changed.
SameExcept(p, q, changed) == \A k \in Fields \ changed : q[k] = p[k]

\* C1: ResetForce() sets f to the value df held just before the call, sets
\* df to the zero vector and changes no other field.
C1_ResetForce ==
    [][ last'.op = "ResetForce" =>
          /\ mp'.f = mp.df
          /\ mp'.df = zeroVec
          /\ SameExcept(mp, mp', {"f", "df"}) ]_vars

\* ResetForce has just committed a non-zero df over a different f.
C1_Witness ==
    /\ last.op = "ResetForce"
    /\ run = 1
    /\ mp0.df # zeroVec
    /\ mp0.f # mp0.df
    /\ mp.f = mp0.df

\* C2: two calls of ResetForce() in a row, from any f and df, end with
\* f = 0 and df = 0.
C2_ResetForceTwice ==
    (last.op = "ResetForce" /\ run >= 2) => (mp.f = zeroVec /\ mp.df = zeroVec)

\* ResetForce has run twice in a row from non-zero, different f and df.
C2_Witness ==
    /\ last.op = "ResetForce"
    /\ run = 2
    /\ mp0.f # zeroVec
    /\ mp0.df # zeroVec
    /\ mp0.f # mp0.df

\* C5: CorrectPosition() adds dr to rPlus and changes nothing else, dr
\* included; so n calls in a row add n*dr, and the result is that of a
\* single call only when n = 1 or dr = 0.
C5_CorrectPosition ==
    last.op = "CorrectPosition" =>
        /\ mp.rPlus = VAdd(mp0.rPlus, VScale(run, mp0.dr))
        /\ SameExcept(mp0, mp, {"rPlus"})
        /\ ((mp.rPlus = VAdd(mp0.rPlus, mp0.dr)) <=> (run = 1 \/ mp0.dr = zeroVec))

\* CorrectPosition has run twice in a row with a non-zero dr.
C5_Witness ==
    /\ last.op = "CorrectPosition"
    /\ run = 2
    /\ mp.dr # zeroVec
    /\ mp.rPlus = VAdd(mp0.rPlus, VScale(2, mp.dr))

\* C6: CorrectVelocity() adds vRes to vPlus and changes nothing else (not
\* vRes, not a position sample); CorrectPosition() changes no velocity
\* sample.
C6_CorrectVelocity ==
    [][ /\ (last'.op = "CorrectVelocity" =>
              /\ mp'.vPlus = VAdd(mp.vPlus, mp.vRes)
              /\ SameExcept(mp, mp', {"vPlus"}))
        /\ (last'.op = "CorrectPosition" =>
              /\ mp'.v = mp.v /\ mp'.vMinus = mp.vMinus
              /\ mp'.vPlus = mp.vPlus /\ mp'.v0 = mp.v0) ]_vars

\* CorrectVelocity has just added a non-zero vRes while dr is non-zero too.
C6_Witness ==
    /\ last.op = "CorrectVelocity"
    /\ mp.vRes # zeroVec
    /\ mp.dr # zeroVec
    /\ mp.vPlus # mp0.vPlus
    /\ mp.rPlus = mp0.rPlus

C7_Mutators ==
    { "SetMass", "ResetForce", "ResetDisplacement", "ResetRestitutionVelocity",
      "CorrectPosition", "CorrectVelocity", "AddExternalForce",
      "AddDampingForce", "Perturb" }

\* C7: none of SetMass, ResetForce, ResetDisplacement,
\* ResetRestitutionVelocity, CorrectPosition, CorrectVelocity,
\* AddExternalForce, AddDampingForce and Perturb changes r0.
C7_ReferencePosition ==
    [][ last'.op \in C7_Mutators => mp'.r0 = mp.r0 ]_vars

\* Perturb has moved r away from a non-zero reference position.
C7_Witness ==
    /\ last.op = "Perturb"
    /\ calls >= 3
    /\ mp.r0 # zeroVec
    /\ mp.r # mp.r0

\* C8: AddExternalForce(fvec) sets f to f + fvec, AddDampingForce(b) sets f
\* to f - b*v for the current v, and neither changes any other field.
C8_ImmediateForce ==
    [][ /\ (last'.op = "AddExternalForce" =>
              /\ mp'.f = VAdd(mp.f, last'.arg)
              /\ SameExcept(mp, mp', {"f"}))
        /\ (last'.op = "AddDampingForce" =>
              /\ mp'.f = VSub(mp.f, VScale(last'.arg, mp.v))
              /\ SameExcept(mp, mp', {"f"})) ]_vars

\* AddDampingForce has just acted on a moving point with a pending df.
C8_Witness ==
    /\ last.op = "AddDampingForce"
    /\ mp.v # zeroVec
    /\ mp.f = VScale(-last.arg, mp.v)
    /\ mp.df # zeroVec

(***************************************************************************)
(* Properties of the per-step protocol (SpecStep).                         *)
(***************************************************************************)
\* The integrator is inside a step: ResetForce has opened it and
\* SynchronizePositionsAndVelocities has not closed it yet.
InStep == pc \notin {"SetMass", "ResetForce"}

\* C3, as claimed: at every state of step k, f is the total accumulated in
\* df during step k-1.
C3_ForceIsPreviousDf == InStep => mp.f = dfPrev

\* C3, amended: at every state of step k, f is the total accumulated in df
\* during step k-1 plus the forces AddExternalForce and AddDampingForce
\* have added so far in step k.
C3_ForceIsPreviousDfPlusExternal == InStep => mp.f = VAdd(dfPrev, extSum)

\* A later step, with a non-zero df carried over from the step before and a
\* non-zero external force on top of it.
C3_Witness ==
    /\ InStep
    /\ step >= 2
    /\ dfPrev # zeroVec
    /\ extSum # zeroVec
    /\ mp.f = VAdd(dfPrev, extSum)

\* C4: in every step, once the three resets have been called and before a
\* collision contribution of the step is added, dr, vRes and df are zero.
C4_AccumulatorsStartAtZero ==
    pc = "forces" => (mp.dr = zeroVec /\ mp.vRes = zeroVec /\ mp.df = zeroVec)

\* The resets of a later step have run after a step that left a non-zero
\* df (now in f), dr (added to rPlus) and vRes (added to vPlus).
C4_Witness ==
    /\ pc = "forces"
    /\ step >= 2
    /\ dfPrev # zeroVec
    /\ mp.rPlus # mp.r0
    /\ mp.vPlus # zeroVec
    /\ mp.dr = zeroVec /\ mp.vRes = zeroVec /\ mp.df = zeroVec

(***************************************************************************)
(* Properties of a batch of force calls made in any order (SpecOrder).     *)
(***************************************************************************)
\* The force the call c contributes to a point whose velocity is v.
ForceOf(c, v) ==
    IF c.op = "AddExternalForce" THEN c.arg ELSE VScale(-c.arg, v)

RECURSIVE TotalForce(_, _, _)
\* The sum of the forces of the calls of S in the multiset m.
TotalForce(m, S, v) ==
    IF S = {} THEN zeroVec
    ELSE LET c == CHOOSE x \in S : TRUE
         IN VAdd(VScale(m[c], ForceOf(c, v)), TotalForce(m, S \ {c}, v))

\* The calls of the batch made so far.
Applied == [c \in ForceCalls |-> batch[c] - pending[c]]

\* C9: contributions are summed, never overwritten, whatever the order of
\* the calls: f is its starting value plus the sum of the contributions made
\* so far, so every order of the whole batch ends with the starting value
\* plus the sum of all of them.
C9_OrderIndependentSum ==
    /\ mp.f = VAdd(mp0.f, TotalForce(Applied, ForceCalls, mp0.v))
    /\ (Count(pending, ForceCalls) = 0 =>
           mp.f = VAdd(mp0.f, TotalForce(batch, ForceCalls, mp0.v)))

\* A whole batch of three calls of three kinds has been made on a moving
\* point that started with a non-zero f.
C9_Witness ==
    /\ Count(pending, ForceCalls) = 0
    /\ Count(batch, ForceCalls) = 3
    /\ Cardinality({c \in ForceCalls : batch[c] > 0}) = 3
    /\ \E c \in ForceCalls : c.op = "AddDampingForce" /\ batch[c] > 0
    /\ mp0.f # zeroVec
    /\ mp0.v # zeroVec
    /\ mp.f # mp0.f

(***************************************************************************)
(* Properties of CollideLinks (SpecCollide).                               *)
(***************************************************************************)
\* d >= 2*rad for the closest distance d between the centerlines of ps:
\* every candidate of 9*d*d is at least 36*rad*rad.
Apart(ps, rad) ==
    \A x \in LinkDist2Candidates(ps) : x[1] >= 36 * rad * rad * x[2]

\* d = 2*rad exactly.
Touching(ps, rad) ==
    /\ Apart(ps, rad)
    /\ \E x \in LinkDist2Candidates(ps) : x[1] = 36 * rad * rad * x[2]

\* C10: a call of CollideLinks on links whose centerlines are d >= 2*rad
\* apart, d = 2*rad included, leaves f, df, dr and vRes of all twelve
\* MassPoints unchanged.
C10_NoCollisionNoChange ==
    (last.op = "CollideLinks" /\ Apart(pts0, last.arg.rad)) =>
        \A i \in 1..12 :
            /\ pts[i].f = pts0[i].f
            /\ pts[i].df = pts0[i].df
            /\ pts[i].dr = pts0[i].dr
            /\ pts[i].vRes = pts0[i].vRes

\* CollideLinks has been called on touching links (d = 2*rad) whose points
\* hold non-zero accumulators from an earlier collision.
C10_Witness ==
    /\ last.op = "CollideLinks"
    /\ Touching(pts0, last.arg.rad)
    /\ \E i \in 1..12 : pts0[i].df # zeroVec /\ pts0[i].dr # zeroVec
    /\ pts = pts0

(***************************************************************************)
(* Perturb (Spec).                                                         *)
(***************************************************************************)
\* C11: Perturb(offset) sets r to r + offset and changes nothing else:
\* rMinus, rPlus, r0, the velocities, the accumulators f, df, dr, vRes and
\* mass are as before the call.
C11_Perturb ==
    [][ last'.op = "Perturb" =>
          /\ mp'.r = VAdd(mp.r, last'.arg)
          /\ SameExcept(mp, mp', {"r"}) ]_vars

\* Perturb has just moved r of a point whose time samples differ and whose
\* accumulators are non-zero.
C11_Witness ==
    /\ last.op = "Perturb"
    /\ run = 1
    /\ mp.r = VAdd(mp0.r, last.arg)
    /\ mp.rPlus # mp0.r
    /\ mp.dr # zeroVec
    /\ mp.df # zeroVec

(***************************************************************************)
(* Two concurrent calls of AddExternalForce (SpecRace).                    *)
(***************************************************************************)
BothReturned == \A t \in Threads : threads[t].pc = "done"

\* C12: when the two calls are serialized, the final f holds both
\* contributions: the point is as after the two calls made one after the
\* other.  When they are not, each component of the final f holds both
\* contributions or only one of them (a lost update, reached in
\* C12_Witness), and no other field is touched.
C12_SerializedKeepsBoth ==
    BothReturned =>
        /\ serial =>
              mp = AddExternalForce(AddExternalForce(mp0, threads[1].force),
                                    threads[2].force)
        /\ \A k \in 1..3 :
              mp.f[k] - mp0.f[k] \in
                  { threads[1].force[k] + threads[2].force[k],
                    threads[1].force[k], threads[2].force[k] }
        /\ SameExcept(mp0, mp, {"f"})

\* Two calls that were not serialized have returned, and f holds the
\* contribution of thread 2 only: that of thread 1 is lost.
C12_Witness ==
    /\ BothReturned
    /\ ~serial
    /\ threads[1].force # threads[2].force
    /\ mp0.f # zeroVec
    /\ mp.f = VAdd(mp0.f, threads[2].force)

(***************************************************************************)
(* The life of an external force (Spec).                                   *)
(***************************************************************************)
\* C13: a force added by AddExternalForce or AddDampingForce lasts until
\* the next ResetForce() at most: f is the df committed by the latest
\* ResetForce plus the forces added since that call, so right after a
\* ResetForce f is the shares of df the collisions handed over between the
\* two latest ResetForce calls, with nothing in it of any force added
\* before the call.
C13_ExternalForceDiscarded ==
    /\ mp.f = VAdd(dfPrev, extSum)
    /\ last.op = "ResetForce" => (extSum = zeroVec /\ mp.f = dfPrev)

\* ResetForce has just been called on a point that held both a pending df
\* and an external force: f is the df, the external force is gone.
C13_Witness ==
    /\ last.op = "ResetForce"
    /\ run = 1
    /\ calls = 3
    /\ mp0.df # zeroVec
    /\ mp0.f # zeroVec
    /\ mp.f = mp0.df
    /\ mp.f = dfPrev

(***************************************************************************)
(* The displacement across steps (SpecSkip).                               *)
(***************************************************************************)
\* CorrectPosition has been called in the step under way.
Corrected == pc \in {"CorrectVelocity", "Synchronize"}

\* C14: CorrectPosition() does not clear dr.  In a step that calls
\* ResetDisplacement() before its collisions and CorrectPosition() once,
\* rPlus grows by exactly the sum of that step's shares of dr; in a step
\* that leaves ResetDisplacement() out, the dr left by the steps before is
\* added to rPlus again, on top of the step's own shares.
C14_DisplacementAcrossSteps ==
    Corrected =>
        /\ disp.reset => mp.rPlus = VAdd(disp.start, disp.acc)
        /\ ~disp.reset => mp.rPlus = VAdd(disp.start, VAdd(disp.prev, disp.acc))
        /\ mp.dr = IF disp.reset THEN disp.acc ELSE VAdd(disp.prev, disp.acc)

\* The second step has left ResetDisplacement out after a first step that
\* called it: the first step's dr is in rPlus twice.
C14_Witness ==
    /\ Corrected
    /\ step = 2
    /\ ~disp.reset
    /\ disp.prev # zeroVec
    /\ disp.acc # zeroVec
    /\ disp.start = VAdd(mp.r0, disp.prev)
    /\ mp.rPlus = VAdd(VAdd(mp.r0, VScale(2, disp.prev)), disp.acc)

====
